---- MODULE Spec2Model ----
(***************************************************************************)
(* UnityUnpacker: unpacking of a .unitypackage (gzip-compressed tar) into  *)
(* a project tree.  The model follows the record-based variant of the      *)
(* program (extractTarGz / moveFile / reconstructStructure / main).        *)
(*                                                                         *)
(* Names and paths are strings; splitting, joining and cleaning of paths   *)
(* are computed character by character the way the Go library computes     *)
(* them (Unix path rules, separator "/").  File contents are sequences of  *)
(* bytes, the content of a pathname entry is a string.  The file system    *)
(* is a map from cleaned path to content plus a set of directories.        *)
(*                                                                         *)
(* The older variant in src/main.go (extraction of every regular entry     *)
(* into a flat staging directory, reconstruction by os.ReadDir and         *)
(* copyFile) is not part of this model.                                    *)
(***************************************************************************)
EXTENDS Integers, Sequences, FiniteSets, TLC

(***************************************************************************)
(* Bounds of the model.                                                    *)
(***************************************************************************)
\* longest archive (number of tar entries) drawn by Init
MaxEntries == 4
\* longest archive unpacked without an explicit output directory argument
MaxEntriesShortArgs == 1

(***************************************************************************)
(* String constants of the program.                                        *)
(***************************************************************************)
SEP == "/"
EMPTY == ""
DOT == "."
DOTDOT == ".."
ROOT == "/"
sAsset == "asset"
sAssetMeta == "asset.meta"
sPathname == "pathname"
sDotMeta == ".meta"
sTmpUnpack == ".tmp_unpack"
sTempPattern == "unpack-unitypackage-"
\* the random suffix os.MkdirTemp puts in place of the "*" of the pattern
sRandom == "7"

(***************************************************************************)
(* strings and path/filepath                                               *)
(***************************************************************************)
\* the character s[i] of a string
Char(s, i) == SubSeq(s, i, i)

\* index of the first occurrence of character c in s from i on, 0 when
\* there is none
RECURSIVE IndexFrom(_, _, _)
IndexFrom(s, c, i) ==
    IF i > Len(s) THEN 0
    ELSE IF Char(s, i) = c THEN i
    ELSE IndexFrom(s, c, i + 1)

\* index of the last occurrence of character c in s up to i, 0 when there
\* is none
RECURSIVE LastIndexFrom(_, _, _)
LastIndexFrom(s, c, i) ==
    IF i < 1 THEN 0
    ELSE IF Char(s, i) = c THEN i
    ELSE LastIndexFrom(s, c, i - 1)

\* strings.SplitN(s, "/", 2)
SplitN2(s) ==
    LET i == IndexFrom(s, SEP, 1) IN
    IF i = 0 THEN <<s>>
    ELSE <<SubSeq(s, 1, i - 1), SubSeq(s, i + 1, Len(s))>>

\* strings.Split(s, "/"): the components between separators
RECURSIVE Components(_)
Components(s) ==
    LET i == IndexFrom(s, SEP, 1) IN
    IF i = 0 THEN <<s>>
    ELSE <<SubSeq(s, 1, i - 1)>> \o Components(SubSeq(s, i + 1, Len(s)))

\* strings.Join(elems, "/")
RECURSIVE JoinSep(_)
JoinSep(elems) ==
    IF Len(elems) = 0 THEN EMPTY
    ELSE IF Len(elems) = 1 THEN elems[1]
    ELSE elems[1] \o SEP \o JoinSep(Tail(elems))

\* the lexical processing of filepath.Clean: drops empty and "." components,
\* resolves ".." against the component before it
RECURSIVE CleanComps(_, _, _)
CleanComps(comps, acc, rooted) ==
    IF Len(comps) = 0 THEN acc
    ELSE LET c == Head(comps)
             rest == Tail(comps)
         IN  IF c = EMPTY \/ c = DOT THEN CleanComps(rest, acc, rooted)
             ELSE IF c = DOTDOT
                  THEN IF Len(acc) > 0 /\ acc[Len(acc)] # DOTDOT
                       THEN CleanComps(rest, SubSeq(acc, 1, Len(acc) - 1), rooted)
                       ELSE IF rooted THEN CleanComps(rest, acc, rooted)
                       ELSE CleanComps(rest, Append(acc, c), rooted)
             ELSE CleanComps(rest, Append(acc, c), rooted)

\* filepath.Clean
Clean(p) ==
    IF p = EMPTY THEN DOT
    ELSE LET rooted == Char(p, 1) = SEP
             body == JoinSep(CleanComps(Components(p), << >>, rooted))
         IN  IF rooted THEN SEP \o body
             ELSE IF body = EMPTY THEN DOT
             ELSE body

\* the elements of elems from the first non-empty one on
RECURSIVE FromFirstNonEmpty(_)
FromFirstNonEmpty(elems) ==
    IF Len(elems) = 0 THEN << >>
    ELSE IF Head(elems) # EMPTY THEN elems
    ELSE FromFirstNonEmpty(Tail(elems))

\* filepath.Join
Join(elems) ==
    LET rest == FromFirstNonEmpty(elems) IN
    IF Len(rest) = 0 THEN EMPTY ELSE Clean(JoinSep(rest))

\* filepath.Dir
Dir(p) == Clean(SubSeq(p, 1, LastIndexFrom(p, SEP, Len(p))))

\* p without its trailing separators
RECURSIVE StripTrailingSep(_)
StripTrailingSep(p) ==
    IF Len(p) > 0 /\ Char(p, Len(p)) = SEP
    THEN StripTrailingSep(SubSeq(p, 1, Len(p) - 1))
    ELSE p

\* filepath.Base
Base(p) ==
    IF p = EMPTY THEN DOT
    ELSE LET q == StripTrailingSep(p)
             r == SubSeq(q, LastIndexFrom(q, SEP, Len(q)) + 1, Len(q))
         IN  IF r = EMPTY THEN ROOT ELSE r

\* filepath.Ext: the suffix from the last "." of the last element on
RECURSIVE ExtFrom(_, _)
ExtFrom(p, i) ==
    IF i < 1 \/ Char(p, i) = SEP THEN EMPTY
    ELSE IF Char(p, i) = "." THEN SubSeq(p, i, Len(p))
    ELSE ExtFrom(p, i - 1)

Ext(p) == ExtFrom(p, Len(p))

\* strings.HasSuffix
HasSuffix(s, suffix) ==
    /\ Len(s) >= Len(suffix)
    /\ SubSeq(s, Len(s) - Len(suffix) + 1, Len(s)) = suffix

\* strings.TrimSuffix
TrimSuffix(s, suffix) ==
    IF HasSuffix(s, suffix) THEN SubSeq(s, 1, Len(s) - Len(suffix)) ELSE s

(***************************************************************************)
(* The file system: fs.files maps the path of every regular file to its    *)
(* content, fs.dirs is the set of directories.  Its operations take        *)
(* cleaned paths (every path the program passes is a result of             *)
(* filepath.Join or filepath.Dir, except outputDir, which main's action    *)
(* cleans as the operating system would resolve it).                       *)
(***************************************************************************)
\* the directory holding the cleaned path p
Parent(p) ==
    LET i == LastIndexFrom(p, SEP, Len(p)) IN
    IF i = 0 THEN DOT
    ELSE IF i = 1 THEN ROOT
    ELSE SubSeq(p, 1, i - 1)

\* p and every directory above it, up to "." or "/"
RECURSIVE AncestorsOrSelf(_)
AncestorsOrSelf(p) ==
    IF p = DOT \/ p = ROOT THEN {p} ELSE {p} \cup AncestorsOrSelf(Parent(p))

\* p is root or lies below the directory root
IsUnder(p, root) ==
    \/ p = root
    \/ /\ Len(p) > Len(root) + 1
       /\ SubSeq(p, 1, Len(root) + 1) = root \o SEP

\* the first n bytes of data
Prefix(data, n) == SubSeq(data, 1, IF n < Len(data) THEN n ELSE Len(data))

\* os.MkdirAll succeeds unless a file is in the way
MkdirAllOk(f, p) == \A q \in AncestorsOrSelf(p) : q \notin DOMAIN f.files

MkdirAll(f, p) == [f EXCEPT !.dirs = @ \cup AncestorsOrSelf(p)]

\* os.MkdirTemp needs its parent directory and makes one new directory
MkdirTempOk(f, p) ==
    /\ Parent(p) \in f.dirs
    /\ p \notin f.dirs
    /\ p \notin DOMAIN f.files

\* os.Create needs the parent directory and no directory at the path
CreateOk(f, p) ==
    /\ p \notin f.dirs
    /\ Parent(p) \in f.dirs

\* the file at p holds exactly data (created or truncated, then written)
WriteFile(f, p, data) == [f EXCEPT !.files = (p :> data) @@ @]

\* os.Open of a regular file
OpenOk(f, p) == p \in DOMAIN f.files

ReadFile(f, p) == f.files[p]

\* os.Rename of a regular file, possibly over an existing file
RenameOk(f, s, d) ==
    /\ OpenOk(f, s)
    /\ d \notin f.dirs
    /\ Parent(d) \in f.dirs

Rename(f, s, d) ==
    [f EXCEPT !.files =
        (d :> f.files[s]) @@ [q \in (DOMAIN f.files) \ {s} |-> f.files[q]]]

\* os.RemoveAll: everything at and below root is gone
RemoveAll(f, root) ==
    [files |-> [q \in {r \in DOMAIN f.files : ~IsUnder(r, root)} |-> f.files[q]],
     dirs |-> {r \in f.dirs : ~IsUnder(r, root)}]

(***************************************************************************)
(* UnityAsset and the pure steps of extractTarGz                           *)
(***************************************************************************)
\* the zero value UnityAsset{}
ZeroAsset == [AssetPath |-> EMPTY, MetaPath |-> EMPTY, PathName |-> EMPTY]

\* destPath := filepath.Join(tempDir, dirName, fileName)
StagedPath(dir, dirName, fileName) == Join(<<dir, dirName, fileName>>)

\* IsStagedMember that takes the staging case for every member but pathname
IsStagedMemberByDefault(fileName) == fileName # sPathname

\* the switch of extractTarGz takes the staging case for these member names
IsStagedMember(fileName) == fileName = sAsset \/ fileName = sAssetMeta

\* SetLocation with the two fields taken for one another
SetLocationSwapped(cur, fileName, destPath) ==
    IF fileName = sAsset
    THEN [cur EXCEPT !.MetaPath = destPath]
    ELSE [cur EXCEPT !.AssetPath = destPath]

\* current.AssetPath = destPath, or current.MetaPath = destPath
SetLocation(cur, fileName, destPath) ==
    IF fileName = sAsset
    THEN [cur EXCEPT !.AssetPath = destPath]
    ELSE [cur EXCEPT !.MetaPath = destPath]

\* AppendRecord that writes over the last record of the list
AppendRecordOverLast(as, cur, text) ==
    IF as = << >>
    THEN Append(as, [cur EXCEPT !.PathName = text])
    ELSE [as EXCEPT ![Len(as)] = [cur EXCEPT !.PathName = text]]

\* case "pathname": the record is completed with the text and appended
AppendRecord(as, cur, text) == Append(as, [cur EXCEPT !.PathName = text])

\* current = UnityAsset{} // reset
ResetCurrent(cur) == ZeroAsset

(***************************************************************************)
(* moveFile.  Every operation on the file system may fail for a reason of  *)
(* the environment (permissions, a full disk, another volume), and fails   *)
(* when the file system as modelled makes it fail.  moveFile is the set of *)
(* outcomes of one call: the file system afterwards and the error returned *)
(* ("" for nil).                                                           *)
(***************************************************************************)
\* the numbers of bytes io.Copy may have written when it fails
CopiedBeforeFailure == 0..1

\* copyFallback without the io.Copy: the destination is created and left empty
copyFallbackWithoutCopy(f, source, destination) ==
    {[fs |-> f, err |-> "failed to open source file"]}
    \cup
    IF ~OpenOk(f, source) THEN {}
    ELSE {[fs |-> f, err |-> "failed to create destination file"]}
         \cup
         IF ~CreateOk(f, destination) THEN {}
         ELSE {[fs |-> WriteFile(f, destination, << >>), err |-> ""]}

\* the fallback of moveFile: open, create, io.Copy
copyFallback(f, source, destination) ==
    {[fs |-> f, err |-> "failed to open source file"]}
    \cup
    IF ~OpenOk(f, source) THEN {}
    ELSE {[fs |-> f, err |-> "failed to create destination file"]}
         \cup
         IF ~CreateOk(f, destination) THEN {}
         ELSE LET created == WriteFile(f, destination, << >>)
                  data == ReadFile(created, source)
              IN  {[fs |-> WriteFile(created, destination, Prefix(data, k)),
                    err |-> "failed to copy data"] : k \in CopiedBeforeFailure}
                  \cup {[fs |-> WriteFile(created, destination, data), err |-> ""]}

moveFile(f, source, destination) ==
    LET destDir == Dir(destination) IN
    {[fs |-> f, err |-> "failed to create directory"]}
    \cup
    IF ~MkdirAllOk(f, destDir) THEN {}
    ELSE LET made == MkdirAll(f, destDir) IN
         (IF RenameOk(made, source, destination)
          THEN {[fs |-> Rename(made, source, destination), err |-> ""]}
          ELSE {})
         \cup copyFallback(made, source, destination)

(***************************************************************************)
(* The pure steps of reconstructStructure                                  *)
(***************************************************************************)
\* the negation of: asset.PathName == "" || asset.AssetPath == ""
IsEligible(asset) == ~(asset.PathName = EMPTY \/ asset.AssetPath = EMPTY)

\* targetAsset := filepath.Join(targetDir, asset.PathName)
TargetAsset(targetDir, asset) == Join(<<targetDir, asset.PathName>>)

\* TargetMeta without the suffix: the sidecar goes where the payload went
TargetMetaWithoutSuffix(targetDir, asset) == TargetAsset(targetDir, asset)

\* targetMeta := targetAsset + ".meta"
TargetMeta(targetDir, asset) == TargetAsset(targetDir, asset) \o sDotMeta

(***************************************************************************)
(* Inputs: the command line and the tar entries of the source archive.     *)
(***************************************************************************)
\* an input file name and an explicit output directory
sInput == "p.u"
sOutput == "o"

\* os.Args[1:]
ArgChoices == {<< >>, <<sInput>>, <<sInput, sOutput>>}

\* a tar entry: header.Name, header.Typeflag and the data the reader yields
\* (archive/tar yields no data for an entry that is not a regular file);
\* the data of a pathname entry is the text it holds
Entry(name, typeflag, data) == [Name |-> name, Typeflag |-> typeflag, Data |-> data]

GroupA == "a"
GroupB == "b"
Member(group, member) == group \o SEP \o member

EntryUniverse ==
    { Entry(Member(GroupA, sAsset), "reg", <<1>>),
      Entry(Member(GroupB, sAsset), "reg", <<2, 3>>),
      Entry(Member(GroupA, sAssetMeta), "reg", <<4>>),
      Entry(Member(GroupA, sPathname), "reg", "x"),
      Entry(Member(GroupB, sPathname), "reg", "d/y"),
      Entry(Member(GroupB, sPathname), "reg", ""),
      Entry(Member(GroupA, sAsset), "symlink", << >>) }

\* all sequences over S of length at most n
RECURSIVE SeqsUpTo(_, _)
SeqsUpTo(S, n) ==
    IF n = 0 THEN {<< >>}
    ELSE LET shorter == SeqsUpTo(S, n - 1) IN
         shorter \cup {Append(q, e) : q \in {t \in shorter : Len(t) = n - 1}, e \in S}

Archives == SeqsUpTo(EntryUniverse, MaxEntries)

(***************************************************************************)
(* State                                                                   *)
(***************************************************************************)
VARIABLES
    args,        \* os.Args[1:]
    entries,     \* the tar entries of the source archive, in archive order
    pc,          \* the statement main (or the function it called) is at
    exitCode,    \* the exit code of the process, -1 while it runs
    outputDir,   \* main's outputDir
    tempParent,  \* main's tempParent
    tempDir,     \* main's tempDir, the staging root
    pos,         \* number of entries tarReader.Next() has returned
    current,     \* extractTarGz's current
    assets,      \* extractTarGz's assets, then main's assets
    err,         \* the error the called function returned ("" for nil)
    ri,          \* index of the record reconstructStructure is at
    fs,          \* the file system
    log          \* the lines printed, by tag

vars == <<args, entries, pc, exitCode, outputDir, tempParent, tempDir, pos,
          current, assets, err, ri, fs, log>>

EmptyFs == [files |-> << >>, dirs |-> {DOT}]

InitOver(archives) ==
    /\ args \in ArgChoices
    /\ entries \in archives
    /\ Len(args) = 2 \/ Len(entries) <= MaxEntriesShortArgs
    /\ pc = "main"
    /\ exitCode = -1
    /\ outputDir = EMPTY
    /\ tempParent = EMPTY
    /\ tempDir = EMPTY
    /\ pos = 0
    /\ current = ZeroAsset
    /\ assets = << >>
    /\ err = ""
    /\ ri = 1
    /\ fs = EmptyFs
    /\ log = << >>

Init == InitOver(Archives)

\* Exit that drops the code: the process ends with exit code 0
ExitWithoutCode(code) ==
    /\ pc' = "exited"
    /\ exitCode' = 0

\* os.Exit(code): the process ends at once; deferred calls do not run
Exit(code) ==
    /\ pc' = "exited"
    /\ exitCode' = code

(***************************************************************************)
(* main, up to the call of extractTarGz                                    *)
(***************************************************************************)
\* the output directory main derives from the input file
DerivedOutputDir(inputFile) ==
    LET baseName == Base(inputFile) IN TrimSuffix(baseName, Ext(baseName))

MainArgs ==
    /\ pc = "main"
    /\ IF Len(args) < 1
       THEN /\ log' = Append(log, "Usage")
            /\ Exit(1)
            /\ UNCHANGED outputDir
       ELSE /\ outputDir' = IF Len(args) < 2 THEN DerivedOutputDir(args[1]) ELSE args[2]
            /\ log' = log \o <<"INFO Input File", "INFO Output Directory">>
            /\ pc' = "mkdirOutput"
            /\ UNCHANGED exitCode
    /\ UNCHANGED <<args, entries, tempParent, tempDir, pos, current, assets, err, ri, fs>>

MainMkdirOutput ==
    /\ pc = "mkdirOutput"
    /\ \E fault \in BOOLEAN :
        IF fault \/ outputDir = EMPTY \/ ~MkdirAllOk(fs, Clean(outputDir))
        THEN /\ log' = Append(log, "ERROR Failed to create output directory")
             /\ Exit(1)
             /\ UNCHANGED fs
        ELSE /\ fs' = MkdirAll(fs, Clean(outputDir))
             /\ pc' = "mkdirTempParent"
             /\ UNCHANGED <<exitCode, log>>
    /\ UNCHANGED <<args, entries, outputDir, tempParent, tempDir, pos, current, assets, err, ri>>

MainMkdirTempParent ==
    /\ pc = "mkdirTempParent"
    /\ tempParent' = Join(<<outputDir, sTmpUnpack>>)
    /\ \E fault \in BOOLEAN :
        IF fault \/ ~MkdirAllOk(fs, tempParent')
        THEN /\ log' = Append(log, "ERROR Failed to create temp directory root")
             /\ Exit(1)
             /\ UNCHANGED fs
        ELSE /\ fs' = MkdirAll(fs, tempParent')
             /\ pc' = "mkdirTemp"
             /\ UNCHANGED <<exitCode, log>>
    /\ UNCHANGED <<args, entries, outputDir, tempDir, pos, current, assets, err, ri>>

MainMkdirTemp ==
    /\ pc = "mkdirTemp"
    /\ LET dir == Join(<<tempParent, sTempPattern \o sRandom>>) IN
       \E fault \in BOOLEAN :
        IF fault \/ ~MkdirTempOk(fs, dir)
        THEN /\ log' = Append(log, "ERROR Failed to create temp directory")
             /\ Exit(1)
             /\ UNCHANGED <<fs, tempDir>>
        ELSE /\ fs' = MkdirAll(fs, dir)
             /\ tempDir' = dir
             /\ pc' = "extractOpen"
             /\ UNCHANGED <<exitCode, log>>
    /\ UNCHANGED <<args, entries, outputDir, tempParent, pos, current, assets, err, ri>>

(***************************************************************************)
(* extractTarGz                                                            *)
(***************************************************************************)
ExtractOpen ==
    /\ pc = "extractOpen"
    /\ log' = Append(log, "INFO Extracting archive")
    /\ \E fault \in {"none", "open", "gzip"} :
        IF fault = "open"
        THEN /\ err' = "failed to open file"
             /\ pc' = "extractReturned"
        ELSE IF fault = "gzip"
        THEN /\ err' = "failed to create gzip reader"
             /\ pc' = "extractReturned"
        ELSE /\ err' = ""
             /\ pc' = "extractLoop"
    /\ pos' = 0
    /\ current' = ZeroAsset
    /\ assets' = << >>
    /\ UNCHANGED <<args, entries, exitCode, outputDir, tempParent, tempDir, ri, fs>>

\* the body of the loop for one header: the set of its outcomes, each the
\* file system, current and assets afterwards and the error extractTarGz
\* returns ("" when the loop goes on)
ExtractStep(f, cur, as, dir, header) ==
    LET parts == SplitN2(header.Name)
        same == [fs |-> f, current |-> cur, assets |-> as, err |-> ""]
    IN
    IF Len(parts) # 2 THEN {same}
    ELSE
    LET dirName == parts[1]
        fileName == parts[2]
        destPath == StagedPath(dir, dirName, fileName)
    IN
    IF IsStagedMember(fileName)
    THEN {[same EXCEPT !.err = "failed to create directory"]}
         \cup
         IF ~MkdirAllOk(f, Dir(destPath)) THEN {}
         ELSE LET made == MkdirAll(f, Dir(destPath)) IN
              {[same EXCEPT !.fs = made, !.err = "failed to create file"]}
              \cup
              IF ~CreateOk(made, destPath) THEN {}
              ELSE {[same EXCEPT !.fs = WriteFile(made, destPath, Prefix(header.Data, k)),
                                 !.err = "failed to extract"] : k \in CopiedBeforeFailure}
                   \cup
                   {[same EXCEPT !.fs = WriteFile(made, destPath, header.Data),
                                 !.current = SetLocation(cur, fileName, destPath)]}
    ELSE IF fileName = sPathname
    THEN {[same EXCEPT !.err = "failed to read pathname"],
          [same EXCEPT !.assets = AppendRecord(as, cur, header.Data),
                       !.current = ResetCurrent(cur)]}
    ELSE {same}

\* one iteration of the loop: tarReader.Next() fails, reports the end of the
\* archive, or yields the next header, which ExtractStep processes
ExtractEntry ==
    /\ pc = "extractLoop"
    /\ \/ /\ err' = "failed to read tar archive"
          /\ assets' = << >>
          /\ pc' = "extractReturned"
          /\ UNCHANGED <<pos, current, fs, log>>
       \/ /\ pos = Len(entries)
          /\ err' = ""
          /\ log' = Append(log, "INFO Extracted Unity assets")
          /\ pc' = "extractReturned"
          /\ UNCHANGED <<pos, current, assets, fs>>
       \/ /\ pos < Len(entries)
          /\ \E r \in ExtractStep(fs, current, assets, tempDir, entries[pos + 1]) :
                /\ pos' = pos + 1
                /\ fs' = r.fs
                /\ current' = r.current
                /\ err' = r.err
                /\ assets' = IF r.err = "" THEN r.assets ELSE << >>
                /\ pc' = IF r.err = "" THEN "extractLoop" ELSE "extractReturned"
                /\ UNCHANGED log
    /\ UNCHANGED <<args, entries, exitCode, outputDir, tempParent, tempDir, ri>>

MainAfterExtract ==
    /\ pc = "extractReturned"
    /\ IF err # ""
       THEN /\ log' = Append(log, "ERROR Extraction failed")
            /\ Exit(1)
       ELSE /\ log' = Append(log, "INFO Reconstructing Unity structure")
            /\ pc' = "reconstructLoop"
            /\ UNCHANGED exitCode
    /\ ri' = 1
    /\ UNCHANGED <<args, entries, outputDir, tempParent, tempDir, pos, current, assets, err, fs>>

(***************************************************************************)
(* reconstructStructure                                                    *)
(***************************************************************************)
\* ReconstructRecord that does not return at a failed move: it keeps the
\* error, goes on with the next record and returns the error at the end
ReconstructRecordContinues ==
    /\ pc = "reconstructLoop"
    /\ IF ri > Len(assets)
       THEN /\ log' = Append(log, "INFO Reconstruction complete")
            /\ pc' = "reconstructReturned"
            /\ UNCHANGED <<ri, err, fs>>
       ELSE IF ~IsEligible(assets[ri])
       THEN /\ log' = Append(log, "WARN Skipping incomplete entry")
            /\ ri' = ri + 1
            /\ UNCHANGED <<pc, err, fs>>
       ELSE \E r \in moveFile(fs, assets[ri].AssetPath, TargetAsset(outputDir, assets[ri])) :
            /\ fs' = r.fs
            /\ log' = Append(log, "INFO Moving asset")
            /\ ri' = ri + 1
            /\ err' = IF r.err # "" THEN "failed to move asset" ELSE err
            /\ UNCHANGED pc
    /\ UNCHANGED <<args, entries, exitCode, outputDir, tempParent, tempDir, pos, current, assets>>

\* one iteration of the loop up to the move of the payload: the loop ends,
\* the record is skipped, or moveFile(asset.AssetPath, targetAsset) is called
ReconstructRecord ==
    /\ pc = "reconstructLoop"
    /\ IF ri > Len(assets)
       THEN /\ log' = Append(log, "INFO Reconstruction complete")
            /\ err' = ""
            /\ pc' = "reconstructReturned"
            /\ UNCHANGED <<ri, fs>>
       ELSE IF ~IsEligible(assets[ri])
       THEN /\ log' = Append(log, "WARN Skipping incomplete entry")
            /\ ri' = ri + 1
            /\ UNCHANGED <<pc, err, fs>>
       ELSE \E r \in moveFile(fs, assets[ri].AssetPath, TargetAsset(outputDir, assets[ri])) :
            /\ fs' = r.fs
            /\ IF r.err # ""
               THEN /\ err' = "failed to move asset"
                    /\ pc' = "reconstructReturned"
                    /\ log' = Append(log, "INFO Moving asset")
                    /\ UNCHANGED ri
               ELSE IF assets[ri].MetaPath # EMPTY
               THEN /\ pc' = "moveMeta"
                    /\ log' = Append(log, "INFO Moving asset")
                    /\ UNCHANGED <<ri, err>>
               ELSE /\ log' = log \o <<"INFO Moving asset", "INFO No .meta file found">>
                    /\ ri' = ri + 1
                    /\ UNCHANGED <<pc, err>>
    /\ UNCHANGED <<args, entries, exitCode, outputDir, tempParent, tempDir, pos, current, assets>>

\* the rest of the iteration: moveFile(asset.MetaPath, targetMeta)
ReconstructMeta ==
    /\ pc = "moveMeta"
    /\ \E r \in moveFile(fs, assets[ri].MetaPath, TargetMeta(outputDir, assets[ri])) :
        /\ fs' = r.fs
        /\ IF r.err # ""
           THEN /\ err' = "failed to move meta"
                /\ pc' = "reconstructReturned"
                /\ UNCHANGED ri
           ELSE /\ ri' = ri + 1
                /\ pc' = "reconstructLoop"
                /\ UNCHANGED err
    /\ UNCHANGED <<args, entries, exitCode, outputDir, tempParent, tempDir, pos, current, assets, log>>

\* main after reconstructStructure returned: os.Exit(1) on an error, else
\* main returns, which runs the deferred os.RemoveAll(tempParent)
MainAfterReconstruct ==
    /\ pc = "reconstructReturned"
    /\ IF err # ""
       THEN /\ log' = Append(log, "ERROR Reconstruction failed")
            /\ Exit(1)
            /\ UNCHANGED fs
       ELSE \E fault \in BOOLEAN :
            /\ IF fault
               THEN /\ log' = log \o <<"SUCCESS Unpacked", "WARN Failed to delete temp directory">>
                    /\ UNCHANGED fs
               ELSE /\ log' = Append(log, "SUCCESS Unpacked")
                    /\ fs' = RemoveAll(fs, tempParent)
            /\ pc' = "exited"
            /\ exitCode' = 0
    /\ UNCHANGED <<args, entries, outputDir, tempParent, tempDir, pos, current, assets, err, ri>>

Next ==
    \/ MainArgs
    \/ MainMkdirOutput
    \/ MainMkdirTempParent
    \/ MainMkdirTemp
    \/ ExtractOpen
    \/ ExtractEntry
    \/ MainAfterExtract
    \/ ReconstructRecord
    \/ ReconstructMeta
    \/ MainAfterReconstruct

Spec == Init /\ [][Next]_vars

(***************************************************************************)
(* Vocabulary of the claims: groups of the archive, stages of the run.     *)
(***************************************************************************)
EntryIdx == 1..Len(entries)

\* the entry's name splits into a group ID and a member name
HasGroup(e) == Len(SplitN2(e.Name)) = 2
GroupOf(e) == SplitN2(e.Name)[1]
MemberOf(e) == SplitN2(e.Name)[2]

\* the group IDs occurring in the archive
GroupIDs == {GroupOf(entries[i]) : i \in {j \in EntryIdx : HasGroup(entries[j])}}

\* the positions of the entries of group g, and of its member named m
GroupIdx(g) == {i \in EntryIdx : HasGroup(entries[i]) /\ GroupOf(entries[i]) = g}
MemberIdx(g, m) == {i \in GroupIdx(g) : MemberOf(entries[i]) = m}

\* the positions of all pathname entries, and of the k-th of them
PathnameIdx == {i \in EntryIdx : HasGroup(entries[i]) /\ MemberOf(entries[i]) = sPathname}
NthPathname(k) == CHOOSE i \in PathnameIdx : Cardinality({j \in PathnameIdx : j <= i}) = k

The(S) == CHOOSE x \in S : TRUE

\* group g has exactly one pathname, exactly one asset, at most one asset.meta
OneOfEach(g) ==
    /\ Cardinality(MemberIdx(g, sPathname)) = 1
    /\ Cardinality(MemberIdx(g, sAsset)) = 1
    /\ Cardinality(MemberIdx(g, sAssetMeta)) <= 1

\* the order the sentence names: pathname, then asset, then asset.meta
OrderPathnameFirst(g) ==
    /\ The(MemberIdx(g, sPathname)) < The(MemberIdx(g, sAsset))
    /\ \A m \in MemberIdx(g, sAssetMeta) : The(MemberIdx(g, sAsset)) < m

\* the order of the package format: asset and asset.meta, then pathname
OrderPathnameLast(g) == \A i \in GroupIdx(g) : i <= The(MemberIdx(g, sPathname))

\* the entries of group g follow one another in the archive
Consecutive(g) ==
    \A i \in GroupIdx(g), j \in GroupIdx(g), m \in EntryIdx :
        i < m /\ m < j => m \in GroupIdx(g)

\* extractTarGz has returned its record list to main
ExtractSucceeded == pc = "extractReturned" /\ err = ""

\* one record per group, and record k, appended by the k-th pathname entry,
\* carries that entry's text and the staged bytes of that entry's group
RecordsMatchGroups ==
    /\ Len(assets) = Cardinality(GroupIDs)
    /\ \A k \in 1..Len(assets) :
        LET i == NthPathname(k)
            g == GroupOf(entries[i])
            r == assets[k]
        IN  /\ r.PathName = entries[i].Data
            /\ r.AssetPath \in DOMAIN fs.files
            /\ fs.files[r.AssetPath] = entries[The(MemberIdx(g, sAsset))].Data
            /\ IF MemberIdx(g, sAssetMeta) = {}
               THEN r.MetaPath = EMPTY
               ELSE /\ r.MetaPath \in DOMAIN fs.files
                    /\ fs.files[r.MetaPath] = entries[The(MemberIdx(g, sAssetMeta))].Data

IsTreePath(p) ==
    /\ p # EMPTY
    /\ p # DOT
    /\ Clean(p) = p
    /\ Char(p, 1) # SEP
    /\ Components(p)[1] # DOTDOT

\* the files the archive packs: the payload of every pathname entry, and the
\* sidecar of every pathname entry whose group has an asset.meta entry
PackedFiles ==
    {<<i, sAsset>> : i \in PathnameIdx}
        \cup {<<i, sAssetMeta>> :
                i \in {j \in PathnameIdx : MemberIdx(GroupOf(entries[j]), sAssetMeta) # {}}}

\* the relative path and the content of a packed file
PackedPath(file) ==
    IF file[2] = sAsset THEN entries[file[1]].Data ELSE entries[file[1]].Data \o sDotMeta
PackedContent(file) == entries[The(MemberIdx(GroupOf(entries[file[1]]), file[2]))].Data

\* the archive is a folder tree packed by the convention: one group per
\* file, made of the regular entries asset, asset.meta (optional) and
\* pathname, which holds the relative path of the file; no two files of the
\* tree, sidecars included, have the same path, and no file is a directory
\* of another
IsPackedTree ==
    /\ \A i \in EntryIdx :
        /\ HasGroup(entries[i])
        /\ entries[i].Typeflag = "reg"
        /\ MemberOf(entries[i]) \in {sAsset, sAssetMeta, sPathname}
    /\ \A g \in GroupIDs :
        /\ OneOfEach(g)
        /\ Consecutive(g)
        /\ OrderPathnameLast(g)
        /\ \A m \in MemberIdx(g, sAssetMeta) : The(MemberIdx(g, sAsset)) < m
    /\ \A i \in PathnameIdx : IsTreePath(entries[i].Data)
    /\ \A v \in PackedFiles, w \in PackedFiles :
        v # w => ~IsUnder(PackedPath(v), PackedPath(w))

\* reconstructStructure has returned nil to main
ReconstructSucceeded == pc = "reconstructReturned" /\ err = ""

\* C2: after extractTarGz and reconstructStructure have run on a packed
\* folder tree, every file of the tree is at its relative path below the
\* destination root, with its content.
C2_RoundTrip ==
    (ReconstructSucceeded /\ IsPackedTree)
        => \A file \in PackedFiles :
            LET dest == outputDir \o SEP \o PackedPath(file) IN
            /\ dest \in DOMAIN fs.files
            /\ fs.files[dest] = PackedContent(file)

\* a tree of two files, one of them in a subdirectory, has been unpacked
C2_Witness ==
    /\ ReconstructSucceeded
    /\ IsPackedTree
    /\ Cardinality(GroupIDs) = 2
    /\ \E file \in PackedFiles : Len(Components(PackedPath(file))) = 2

\* a tree of one file with its sidecar has been unpacked
C2_WitnessSidecar ==
    /\ ReconstructSucceeded
    /\ IsPackedTree
    /\ \E file \in PackedFiles : file[2] = sAssetMeta

(***************************************************************************)
(* C3                                                                      *)
(***************************************************************************)
\* the group of the pathname entry that appended record k
RecordGroup(k) == GroupOf(entries[NthPathname(k)])

\* the paths reconstructStructure writes for record k
TargetsOf(k) == {TargetAsset(outputDir, assets[k]), TargetMeta(outputDir, assets[k])}

\* C3 as stated: after reconstructStructure has returned nil, the record
\* of every group that has a pathname entry but no asset entry is one the
\* loop skips, and nothing is at destinationRoot/<logicalPath> or at
\* destinationRoot/<logicalPath>.meta.
C3_GroupWithoutAssetIsSkipped ==
    ReconstructSucceeded =>
        \A k \in 1..Len(assets) :
            MemberIdx(RecordGroup(k), sAsset) = {}
                => /\ ~IsEligible(assets[k])
                   /\ \A t \in TargetsOf(k) : t \notin DOMAIN fs.files

(***************************************************************************)
(* C4                                                                      *)
(***************************************************************************)
\* group g has asset and pathname entries in package order, a logical path,
\* and no asset.meta entry
IsPayloadOnlyGroup(g) ==
    /\ MemberIdx(g, sAssetMeta) = {}
    /\ OneOfEach(g)
    /\ OrderPathnameLast(g)
    /\ Consecutive(g)
    /\ entries[The(MemberIdx(g, sPathname))].Data # EMPTY

\* C4 as stated, for groups whose own entries are in package order: after
\* reconstructStructure has returned nil, the payload of a group without an
\* asset.meta entry is at destinationRoot/<logicalPath> and there is no
\* file destinationRoot/<logicalPath>.meta.
C4_PayloadOnlyRelocation ==
    ReconstructSucceeded =>
        \A g \in {h \in GroupIDs : IsPayloadOnlyGroup(h)} :
            LET dest == Join(<<outputDir, entries[The(MemberIdx(g, sPathname))].Data>>) IN
            /\ dest \in DOMAIN fs.files
            /\ fs.files[dest] = entries[The(MemberIdx(g, sAsset))].Data
            /\ (dest \o sDotMeta) \notin DOMAIN fs.files

(***************************************************************************)
(* C5                                                                      *)
(***************************************************************************)
\* the elements of a sequence
Range(seq) == {seq[i] : i \in 1..Len(seq)}

\* the number of times x occurs in seq
CountOf(seq, x) == Cardinality({i \in 1..Len(seq) : seq[i] = x})

LastLine == IF Len(log) = 0 THEN "" ELSE log[Len(log)]

\* the process has ended because extractTarGz returned an error
ExtractionFailedExit == pc = "exited" /\ LastLine = "ERROR Extraction failed"

\* C5 as stated: when extraction has failed and the process has ended,
\* extractTarGz has returned no records, reconstructStructure was never
\* started and no file is in the destination directory.
C5_FailedExtractionWritesNothing ==
    ExtractionFailedExit =>
        /\ exitCode = 1
        /\ assets = << >>
        /\ "INFO Reconstructing Unity structure" \notin Range(log)
        /\ \A path \in DOMAIN fs.files : ~IsUnder(path, Clean(outputDir))

(***************************************************************************)
(* C6                                                                      *)
(***************************************************************************)
\* the process has ended because reconstructStructure returned an error
ReconstructionFailedExit == pc = "exited" /\ LastLine = "ERROR Reconstruction failed"

\* C6: when the relocation of a record has failed, the process ends with
\* exit code 1 at that record: the records moved or tried are the eligible
\* ones up to it, and no file of a later record is in the destination tree.
C6_AbortAtFailingRecord ==
    ReconstructionFailedExit =>
        /\ exitCode = 1
        /\ ri \in 1..Len(assets)
        /\ IsEligible(assets[ri])
        /\ CountOf(log, "INFO Moving asset")
             = Cardinality({j \in 1..ri : IsEligible(assets[j])})
        /\ \A j \in (ri + 1)..Len(assets) :
             \A t \in TargetsOf(j) \ UNION {TargetsOf(i) : i \in 1..ri} :
                t \notin DOMAIN fs.files

\* the move of the first record failed while an eligible record follows it
C6_Witness ==
    /\ ReconstructionFailedExit
    /\ ri < Len(assets)
    /\ IsEligible(assets[ri + 1])
    /\ TargetsOf(ri + 1) \cap TargetsOf(ri) = {}

(***************************************************************************)
(* C7                                                                      *)
(***************************************************************************)
\* C7: a call of moveFile that returns nil leaves at the destination the
\* content the source had when the call started.  A step of the loop that
\* goes on after moveFile is a call that returned nil.
C7_MoveKeepsContent ==
    [][/\ (/\ pc = "reconstructLoop"
           /\ ri <= Len(assets)
           /\ IsEligible(assets[ri])
           /\ (pc' = "moveMeta" \/ ri' = ri + 1))
          => LET source == assets[ri].AssetPath
                 dest == TargetAsset(outputDir, assets[ri])
             IN  /\ source \in DOMAIN fs.files
                 /\ dest \in DOMAIN fs'.files
                 /\ fs'.files[dest] = fs.files[source]
       /\ (pc = "moveMeta" /\ pc' = "reconstructLoop")
          => LET source == assets[ri].MetaPath
                 dest == TargetMeta(outputDir, assets[ri])
             IN  /\ source \in DOMAIN fs.files
                 /\ dest \in DOMAIN fs'.files
                 /\ fs'.files[dest] = fs.files[source]]_vars

\* a payload has been moved by the copy fallback: it is at its destination
\* and its source is still staged
C7_Witness ==
    /\ pc = "reconstructLoop"
    /\ ri = 2
    /\ IsEligible(assets[1])
    /\ assets[1].AssetPath \in DOMAIN fs.files
    /\ TargetAsset(outputDir, assets[1]) \in DOMAIN fs.files
    /\ fs.files[TargetAsset(outputDir, assets[1])] # << >>

(***************************************************************************)
(* C8                                                                      *)
(***************************************************************************)
\* C8 as stated: when the process has ended after it acquired the staging
\* directory, that directory is deleted, or its deletion failed with a
\* warning.
C8_StagingDeletedAtExit ==
    (pc = "exited" /\ tempDir # EMPTY)
        => \/ tempDir \notin fs.dirs
           \/ LastLine = "WARN Failed to delete temp directory"

(***************************************************************************)
(* C9                                                                      *)
(***************************************************************************)
\* C9 as stated: an entry that is not a regular file is skipped whatever
\* its name.  So while the loop has read only such entries, nothing is
\* staged, no field of current is set and no record is appended.
C9_NonRegularEntryIsSkipped ==
    (/\ pc = "extractLoop"
     /\ \A i \in 1..pos : entries[i].Typeflag # "reg")
        => /\ DOMAIN fs.files = {}
           /\ current = ZeroAsset
           /\ assets = << >>

(***************************************************************************)
(* C10                                                                     *)
(***************************************************************************)
\* the lines printed with a fatal error
FatalLines ==
    {"Usage",
     "ERROR Failed to create output directory",
     "ERROR Failed to create temp directory root",
     "ERROR Failed to create temp directory",
     "ERROR Extraction failed",
     "ERROR Reconstruction failed"}

FatalCount == Cardinality({i \in 1..Len(log) : log[i] \in FatalLines})

\* argument parsing, directory setup, extraction and reconstruction have
\* each come to their end
AllStagesCompleted ==
    /\ "INFO Output Directory" \in Range(log)
    /\ tempDir # EMPTY
    /\ "INFO Extracted Unity assets" \in Range(log)
    /\ "INFO Reconstruction complete" \in Range(log)

\* C10: the process ends with exit code 0 exactly when all stages have
\* completed, and with exit code 1 right at the first fatal error: the
\* fatal line is the only one and the last thing the process did.
C10_ExitCode ==
    /\ pc # "exited" => exitCode = -1 /\ FatalCount = 0
    /\ pc = "exited" =>
        /\ exitCode \in {0, 1}
        /\ exitCode = 0 <=> AllStagesCompleted
        /\ exitCode = 0 => FatalCount = 0
        /\ exitCode = 1 => FatalCount = 1 /\ LastLine \in FatalLines

\* a run that skipped an incomplete record has ended with exit code 0
C10_Witness ==
    /\ pc = "exited"
    /\ exitCode = 0
    /\ "WARN Skipping incomplete entry" \in Range(log)
    /\ "INFO Moving asset" \in Range(log)

(***************************************************************************)
(* C11                                                                     *)
(***************************************************************************)
\* longest archive unpacked in the runs that vary the command line
MaxArgEntries == 3

\* input file names: the example of the documentation, a name in a
\* directory, a name with two extensions, a name without extension, and a
\* name that is an extension only
sMyPackage == "MyPackage.unitypackage"
sInDir == "d/q.u"
sTwoExts == "q.tar.u"
sNoExt == "q"
sExtOnly == ".unitypackage"

InputNames == {sMyPackage, sInDir, sTwoExts, sNoExt, sExtOnly}

\* os.Args[1:] of the runs that vary the command line
ArgInputs ==
    {<< >>} \cup {<<n>> : n \in InputNames} \cup {<<n, sOutput>> : n \in InputNames}

\* the archives of these runs: the entries of one group
GroupAEntries ==
    { Entry(Member(GroupA, sAsset), "reg", <<1>>),
      Entry(Member(GroupA, sAssetMeta), "reg", <<4>>),
      Entry(Member(GroupA, sPathname), "reg", "x") }

\* main starts with a command line of argChoices on an archive of archives
InitFrom(argChoices, archives) ==
    /\ args \in argChoices
    /\ entries \in archives
    /\ pc = "main"
    /\ exitCode = -1
    /\ outputDir = EMPTY
    /\ tempParent = EMPTY
    /\ tempDir = EMPTY
    /\ pos = 0
    /\ current = ZeroAsset
    /\ assets = << >>
    /\ err = ""
    /\ ri = 1
    /\ fs = EmptyFs
    /\ log = << >>

InitArgs == InitFrom(ArgInputs, SeqsUpTo(GroupAEntries, MaxArgEntries))

SpecArgs == InitArgs /\ [][Next]_vars

\* ext is what a last extension looks like: empty, or a dot followed by
\* characters that are neither dots nor separators
IsLastExtension(ext) ==
    \/ ext = EMPTY
    \/ /\ Char(ext, 1) = DOT
       /\ \A i \in 2..Len(ext) : Char(ext, i) \notin {DOT, SEP}

\* name is the last element of path
IsBaseNameOf(name, path) ==
    /\ \A i \in 1..Len(name) : Char(name, i) # SEP
    /\ \/ path = name
       \/ /\ Len(path) > Len(name)
          /\ SubSeq(path, Len(path) - Len(name), Len(path)) = SEP \o name

\* stem is the last element of path without its last extension: the
\* element is stem followed by a last extension, which is empty only when
\* the element has no dot
IsStemOf(stem, path) ==
    \E n \in 0..Len(path) :
        LET ext == SubSeq(path, Len(path) - n + 1, Len(path)) IN
        /\ IsLastExtension(ext)
        /\ IsBaseNameOf(stem \o ext, path)
        /\ ext = EMPTY => \A i \in 1..Len(stem) : Char(stem, i) # DOT

\* main has parsed a command line that names an input file
ArgsParsed == pc # "main" /\ Len(args) >= 1

\* C11 as stated: with one argument the output directory is the base name
\* of the input path without its last extension and is not empty; with two
\* arguments it is the second argument.
C11_OutputDirectory ==
    ArgsParsed =>
        IF Len(args) >= 2
        THEN outputDir = args[2]
        ELSE outputDir # EMPTY /\ IsStemOf(outputDir, args[1])

\* C11, the part that holds of every input file name: the derived directory
\* is the base name without its last extension, which may be empty.
C11_DerivedNameMayBeEmpty ==
    ArgsParsed =>
        IF Len(args) >= 2
        THEN outputDir = args[2]
        ELSE IsStemOf(outputDir, args[1])

\* the documented example has been parsed
C11_Witness ==
    /\ ArgsParsed
    /\ args = <<sMyPackage>>
    /\ outputDir = "MyPackage"

(***************************************************************************)
(* C12                                                                     *)
(***************************************************************************)
\* staging/<g>/<member>
StagedMemberOf(g, member) == tempDir \o SEP \o g \o SEP \o member

\* C12 as stated: every record of the list references only staged files of
\* the group of the pathname entry that appended it: its AssetPath is empty
\* or staging/<g>/asset, its MetaPath is empty or staging/<g>/asset.meta.
C12_RecordsReferenceOwnGroup ==
    pc \in {"extractLoop", "extractReturned"} =>
        \A k \in 1..Len(assets) :
            LET g == RecordGroup(k) IN
            /\ assets[k].AssetPath \in {EMPTY, StagedMemberOf(g, sAsset)}
            /\ assets[k].MetaPath \in {EMPTY, StagedMemberOf(g, sAssetMeta)}

(***************************************************************************)
(* C13                                                                     *)
(***************************************************************************)
\* the position of the pathname entry before the one that appended record
\* k, 0 when there is none
PreviousPathname(k) == IF k = 1 THEN 0 ELSE NthPathname(k - 1)

\* record k was appended without a payload and the asset entries of its
\* group come after its pathname entry: no asset entry is between the
\* previous pathname entry and the one of record k, and the group of
\* record k has an asset entry further on
IsLateAssetRecord(k) ==
    LET i == NthPathname(k) IN
    /\ \A j \in (PreviousPathname(k) + 1)..(i - 1) :
         ~(HasGroup(entries[j]) /\ MemberOf(entries[j]) = sAsset)
    /\ \E m \in MemberIdx(RecordGroup(k), sAsset) : m > i

\* extractTarGz returns an error in this step (it returns nil for the list)
ExtractFails == pc = "extractLoop" /\ pc' = "extractReturned" /\ err' # ""

C14_MoveRemovesSource ==
    [][/\ (/\ pc = "reconstructLoop"
           /\ ri <= Len(assets)
           /\ IsEligible(assets[ri])
           /\ (pc' = "moveMeta" \/ ri' = ri + 1))
          => assets[ri].AssetPath \notin DOMAIN fs'.files
       /\ (pc = "moveMeta" /\ pc' = "reconstructLoop")
          => assets[ri].MetaPath \notin DOMAIN fs'.files]_vars

(***************************************************************************)
(* Archives with entries of other names: an entry outside every group, a   *)
(* directory entry, members that are none of the three, a group ID and     *)
(* pathname texts with ".." and with a leading separator.                  *)
(***************************************************************************)
\* longest archive of these runs
MaxNameEntries == 3

sParentDir == ".."

NameUniverse ==
    { Entry("r", "reg", <<5>>),
      Entry(GroupA \o SEP, "dir", << >>),
      Entry(Member(GroupA, "n"), "reg", <<6>>),
      Entry(Member(GroupA, "asset/n"), "reg", <<7>>),
      Entry(Member(GroupA, sAsset), "reg", <<1>>),
      Entry(Member(GroupA, sAssetMeta), "reg", <<4>>),
      Entry(Member(GroupA, sPathname), "reg", "x"),
      Entry(Member(sParentDir, sAsset), "reg", <<8>>),
      Entry(Member(GroupA, sPathname), "reg", "../z"),
      Entry(Member(GroupA, sPathname), "reg", "/e") }

InitNames == InitFrom({<<sInput, sOutput>>}, SeqsUpTo(NameUniverse, MaxNameEntries))

SpecNames == InitNames /\ [][Next]_vars

(***************************************************************************)
(* C15                                                                     *)
(***************************************************************************)
\* the positions of the separators in name
SeparatorsOf(name) == {i \in 1..Len(name) : Char(name, i) = SEP}

\* everything after the first separator of name
AfterFirstSeparator(name) ==
    LET first == CHOOSE i \in SeparatorsOf(name) : \A j \in SeparatorsOf(name) : i <= j
    IN  SubSeq(name, first + 1, Len(name))

\* the name has no separator, or its member name is none of the three
IsIgnoredName(name) ==
    \/ SeparatorsOf(name) = {}
    \/ AfterFirstSeparator(name) \notin {sAsset, sAssetMeta, sPathname}

\* C15: a step of the loop that reads an entry of such a name leaves
\* current, the record list and the staging area as they are, and the loop
\* goes on.
C15_OtherEntryIsIgnored ==
    [][(/\ pc = "extractLoop"
        /\ pos' = pos + 1
        /\ IsIgnoredName(entries[pos'].Name))
          => /\ current' = current
             /\ assets' = assets
             /\ fs' = fs
             /\ err' = ""
             /\ pc' = "extractLoop"]_vars

\* after a payload was staged, a third entry has been read whose name has
\* a separator and a member name that is none of the three
C15_Witness ==
    /\ pc = "extractLoop"
    /\ pos = 3
    /\ IsIgnoredName(entries[3].Name)
    /\ SeparatorsOf(entries[3].Name) # {}
    /\ current # ZeroAsset
    /\ DOMAIN fs.files # {}

(***************************************************************************)
(* C16                                                                     *)
(***************************************************************************)
\* C16 as stated: while extractTarGz runs without an error, every file
\* lies inside the staging root; afterwards every file lies inside the staging root or the
\* destination root.
C16_PathContainment ==
    /\ (pc \in {"extractLoop", "extractReturned"} /\ err = "") =>
         \A p \in DOMAIN fs.files : IsUnder(p, tempDir)
    /\ pc \in {"reconstructLoop", "moveMeta", "reconstructReturned"} =>
         \A p \in DOMAIN fs.files : IsUnder(p, tempDir) \/ IsUnder(p, Clean(outputDir))

\* C16, the part about reconstructStructure alone: every file lies inside
\* the destination root, which holds the staging root.
C16_DestinationContainment ==
    \A p \in DOMAIN fs.files : IsUnder(p, Clean(outputDir))

====
